---- MODULE Spec2Model ----
(***************************************************************************)
(* Agent verification pipeline: the registry backends (AgentRegistry and   *)
(* CachedAgentRegistry with its GitHubActionsCache snapshot), the score    *)
(* formulas, and the AgentVerifier orchestrator with its result cache.     *)
(*                                                                         *)
(* Scores are integers in thousandths (0.5 is 500).  Hashes are modelled   *)
(* by tables over the sampled inputs; the 12-character truncation used by  *)
(* generate_agent_did keeps only the first component of a composite.       *)
(* Optional values (None) are sequences of length 0 or 1.  Dynamically     *)
(* typed numbers are tagged records so that an absent key and an ill-typed *)
(* value are distinct from every number.                                   *)
(***************************************************************************)
EXTENDS Integers, Sequences, FiniteSets, TLC

VARIABLES cfg, fs, registry, initialized, loads, cache, now, nops, last, returned, peer,
          fx

vars == <<cfg, fs, registry, initialized, loads, cache, now, nops, last, returned, peer, fx>>

----------------------------------------------------------------------------
(* Bounds of the model *)

MaxOps == 3

MaxDay == 7

MaxLoads == 2

MaxFiles == 2
MaxUpdates == 6

----------------------------------------------------------------------------
(* Values *)

None == <<>>

Some(x) == <<x>>

Num(n) == [tag |-> "int", val |-> n]

Str == [tag |-> "str", val |-> 0]

\* a trustScore that is not a number (a string in the persisted document);
\* every arithmetic operation, comparison and ":.2f" format on it raises
NotANumber == 0 - 1

\* a value the JSON encoder rejects (a set, a datetime, a Decimal)
Obj == [tag |-> "obj", val |-> 0]

Missing == [tag |-> "absent", val |-> 0]

Min(a, b) == IF a <= b THEN a ELSE b

Max(a, b) == IF a >= b THEN a ELSE b

\* dict.get(key, default) for a numeric field
GetOr(v, default) == IF v.tag = "absent" THEN Num(default) ELSE v

Repos == {"A", "B"}

\* hashlib.sha256(repo_url.encode()).hexdigest()[:12]
RepoHash12(repo) == IF repo = "A" THEN "426415da6467" ELSE "b23a6a84c0de"

\* fingerprint["composite"][:12]: a composite is <<first 12 characters, rest>>
Prefix12(composite) == composite[1]

Paths == {"data", "cache"}

\* GitHubActionsCache: cache_dir / "registry.json"
CachePath == "cache"

Backends == {"AgentRegistry", "CachedAgentRegistry"}

AbsentDoc == [kind |-> "absent", recs |-> <<>>]

\* a zero-length or otherwise undecodable document
InvalidDoc == [kind |-> "invalid", recs |-> <<>>]

\* valid JSON that is a list, not a mapping
ListDoc == [kind |-> "list", recs |-> <<>>]

EmptyRegistry == [kind |-> "map", recs |-> <<>>]

\* json.dump(self.registry, f, indent=2): the whole registry, in dict order
json_dump(reg) == [kind |-> reg.kind, recs |-> reg.recs]

\* json.load(f): raises on an undecodable document
json_load(doc) ==
    IF doc.kind \in {"map", "list"}
    THEN [ok |-> TRUE, value |-> [kind |-> doc.kind, recs |-> doc.recs]]
    ELSE [ok |-> FALSE, value |-> EmptyRegistry]

Exists(doc) == doc.kind # "absent"

\* position of key id in the dict, 0 when absent
IndexOf(recs, id) ==
    IF \E i \in 1..Len(recs) : recs[i].id = id
    THEN CHOOSE i \in 1..Len(recs) : recs[i].id = id
    ELSE 0

Contains(seq, x) == \E i \in 1..Len(seq) : seq[i] = x

----------------------------------------------------------------------------
(* GitHubActionsCache *)

_is_github_actions(c) == c.gha

\* opening the target "w" truncates it before src.read() runs; when source
\* and target are the same file the text read is empty
CopyFile(files, src, dst) ==
    IF src = dst THEN [files EXCEPT ![dst] = InvalidDoc]
    ELSE [files EXCEPT ![dst] = files[src]]

restore_cache(w, c) ==
    IF ~_is_github_actions(c) THEN [w |-> w, ret |-> FALSE]
    ELSE IF Exists(w.fs[CachePath])
         THEN IF c.writable
              THEN [w |-> [w EXCEPT !.fs = CopyFile(w.fs, CachePath, c.storage_path)],
                    ret |-> TRUE]
              ELSE [w |-> w, ret |-> FALSE]
         ELSE [w |-> w, ret |-> FALSE]

save_cache(w, c) ==
    IF ~_is_github_actions(c) THEN w
    ELSE IF ~Exists(w.fs[c.storage_path]) THEN w
    ELSE IF c.writable
         THEN [w EXCEPT !.fs = CopyFile(w.fs, c.storage_path, CachePath)]
         ELSE w

----------------------------------------------------------------------------
(* Registry persistence *)

CountLoad(w) == [w EXCEPT !.loads = IF w.loads < MaxLoads THEN w.loads + 1 ELSE w.loads]

load_registry(w, c) ==
    LET w1 == CountLoad(w)
        doc == w.fs[c.storage_path]
        parsed == json_load(doc)
    IN IF Exists(doc)
       THEN IF parsed.ok THEN [w1 EXCEPT !.registry = parsed.value]
            ELSE [w1 EXCEPT !.registry = EmptyRegistry]
       ELSE IF c.backend = "CachedAgentRegistry"
            THEN [w1 EXCEPT !.registry = EmptyRegistry]
            ELSE w1

initialize(w, c) ==
    IF w.initialized THEN w
    ELSE IF c.backend = "CachedAgentRegistry"
         THEN LET r == restore_cache(w, c)
              IN IF ~r.ret
                 THEN [load_registry(r.w, c) EXCEPT !.initialized = TRUE]
                 ELSE [r.w EXCEPT !.initialized = TRUE]
         ELSE [load_registry(w, c) EXCEPT !.initialized = TRUE]

\* json.dump(self.registry, f, indent=2) raises TypeError on such a value
Serializable(reg) ==
    \A i \in 1..Len(reg.recs) : reg.recs[i].verificationCount.tag # "obj"

\* the document left unwritten
save_registry_Unsaved(w, c) == w

\* open(path, "w") truncates the document and the encoder writes it piece by
\* piece: when it raises, the text written so far stays, the exception is
\* caught and save_cache is not reached
save_registry(w, c) ==
    IF ~c.writable THEN [w EXCEPT !.saveFailed = TRUE]
    ELSE IF ~Serializable(w.registry)
    THEN [w EXCEPT !.fs[c.storage_path] = InvalidDoc, !.saveFailed = TRUE]
    ELSE LET w1 == [w EXCEPT !.fs[c.storage_path] = json_dump(w.registry)]
         IN IF c.backend = "CachedAgentRegistry" THEN save_cache(w1, c) ELSE w1

----------------------------------------------------------------------------
(* Registry: identifiers and trust scores *)

Namespace(c) == IF c.backend = "CachedAgentRegistry" THEN "agentproof" ELSE "did:agentproof"

\* "<namespace>:" + sha256(repo_url)[:12] + "-" + composite[:12]
generate_agent_did(c, repo_url, fingerprint) ==
    <<Namespace(c), RepoHash12(repo_url), Prefix12(fingerprint.composite)>>

\* the score computed without the upper limit
Clamp_NoUpper(score) == Max(100, score)

\* max(0.1, min(1.0, score))
Clamp(score) == Max(100, Min(1000, score))

\* the comparisons and the division raise TypeError on a non-numeric value
InitialScoreRaises(metadata) ==
    \/ metadata.securityScore.tag = "str"
    \/ metadata.githubStars.tag = "str"

\* the base score returned whatever the metadata
calculate_initial_trust_score_Base(fingerprint, metadata) == Clamp(500)

calculate_initial_trust_score(fingerprint, metadata) ==
    LET sec == GetOr(metadata.securityScore, 0).val
        stars == GetOr(metadata.githubStars, 0).val
        score == 500
                 + (IF sec > 800 THEN 200 ELSE 0)
                 + (IF metadata.hasTests THEN 100 ELSE 0)
                 + (IF metadata.hasDocumentation THEN 100 ELSE 0)
                 + (IF metadata.hasLicense THEN 50 ELSE 0)
                 + (IF metadata.complexity = "low" THEN 50
                    ELSE IF metadata.complexity = "high" THEN -50 ELSE 0)
                 + (IF stars > 10 THEN Min(100, stars) ELSE 0)
    IN IF InitialScoreRaises(metadata) THEN 500 ELSE Clamp(score)

\* (datetime.utcnow() - dt).days, 999 when the stored value does not parse
get_days_since(date, today) == IF date.tag = "int" THEN today - date.val ELSE 999

\* agent is the record as update_agent has already modified it
update_trust_score(agent, metadata, today) ==
    LET base_score == agent.trustScore
        verification_bonus == Min(200, agent.verificationCount.val * 20)
        cross_repo_bonus == Min(150, (Len(agent.repositories) - 1) * 50)
        days_since == get_days_since(agent.lastVerified, today)
        issues == GetOr(metadata.securityIssuesFound, 1)
    IN IF base_score = NotANumber
       THEN agent.trustScore   \* except: return agent.get("trustScore", 0.5)
       ELSE Clamp(base_score + verification_bonus + cross_repo_bonus
                  + (IF days_since < 7 THEN 50 ELSE 0)
                  + (IF issues.tag = "int" /\ issues.val = 0 THEN 50 ELSE 0)
                  + (IF metadata.hasSecurityUpdates THEN 30 ELSE 0))

----------------------------------------------------------------------------
(* Registry operations.  Each returns the object state after the call (w), *)
(* the exception raised if any (exc) and the value returned (ret).         *)

Raise(w, msg) == [w |-> w, exc |-> Some(msg), ret |-> None]

Return(w, value) == [w |-> w, exc |-> None, ret |-> Some(value)]

\* the URL appended without the membership test
add_repository_Always(repositories, repo_url) == Append(repositories, repo_url)

\* if repo_url not in agent["repositories"]: agent["repositories"].append(repo_url)
add_repository(repositories, repo_url) ==
    IF Contains(repositories, repo_url) THEN repositories
    ELSE Append(repositories, repo_url)

update_agent(w, c, agent_id, repo_url, fingerprint, metadata, today) ==
    LET \* agent["verificationCount"] += 1
        Counted(a1) ==
            [a1 EXCEPT !.verificationCount = Num(a1.verificationCount.val + 1)]
        \* agent["trustScore"] = self.update_trust_score(agent, metadata)
        Rescored(a2) ==
            [a2 EXCEPT !.trustScore = update_trust_score(a2, metadata, today)]
        \* agent["metadata"].update(metadata), agent.update(metadata)
        Merged(a3) ==
            [a3 EXCEPT !.verificationCount =
                IF metadata.verificationCount.tag = "absent"
                THEN a3.verificationCount
                ELSE metadata.verificationCount]
        Saved(w4) == Return(IF c.auto_save THEN save_registry(w4, c) ELSE w4, agent_id)
        \* a1: the record with the URL added and lastVerified set
        Updated(i, a1) ==
            IF a1.verificationCount.tag # "int"
            THEN Raise([w EXCEPT !.registry.recs[i] = a1], "TypeError")
            ELSE Saved([w EXCEPT !.registry.recs[i] = Merged(Rescored(Counted(a1)))])
        Found(i) ==
            IF i = 0 THEN Raise(w, "ValueError: Agent not found")
            ELSE Updated(i, [w.registry.recs[i] EXCEPT
                               !.repositories = add_repository(@, repo_url),
                               !.lastVerified = Num(today)])
    IN IF w.registry.kind # "map" THEN Raise(w, "AttributeError")
       ELSE Found(IndexOf(w.registry.recs, agent_id))

register_agent(w, c, repo_url, fingerprint, metadata, today) ==
    LET agent_id == generate_agent_did(c, repo_url, fingerprint)
        agent_record ==
            [id |-> agent_id,
             fingerprint |-> fingerprint.composite,
             repositories |-> <<repo_url>>,
             trustScore |-> calculate_initial_trust_score(fingerprint, metadata),
             lastVerified |-> Num(today),
             verificationCount |->
                 IF metadata.verificationCount.tag = "absent"
                 THEN Num(1) ELSE metadata.verificationCount]
        Saved(w1) == Return(IF c.auto_save THEN save_registry(w1, c) ELSE w1, agent_id)
        \* w0: the object after self.initialize()
        Initialized(w0) ==
            IF w0.registry.kind # "map" THEN Raise(w0, "AttributeError")
            ELSE IF IndexOf(w0.registry.recs, agent_id) # 0
                 THEN update_agent(w0, c, agent_id, repo_url, fingerprint, metadata, today)
                 ELSE Saved([w0 EXCEPT !.registry.recs = Append(@, agent_record)])
    IN Initialized(initialize(w, c))

NotConsistent ==
    [consistent |-> FALSE, agentId |-> None, trustScore |-> 0,
     repositories |-> None, crossRepoCount |-> 0, verificationHistory |-> Num(0)]

\* "repositories" is the record's own list object: the report holds a
\* reference to it (the owning record's key), not a copy
verify_agent_consistency(w, c, fingerprint, current_repo) ==
    LET Report(agent) ==
            [consistent |-> TRUE,
             agentId |-> Some(agent.id),
             trustScore |-> agent.trustScore,
             repositories |-> Some(agent.id),
             crossRepoCount |-> Len(agent.repositories),
             verificationHistory |-> agent.verificationCount]
        \* the first record, in the dict's order, holding the fingerprint
        Scanned(w0, recs, hits) ==
            IF hits # {}
            THEN Return(w0, Report(recs[CHOOSE i \in hits : \A j \in hits : i <= j]))
            ELSE Return(w0, NotConsistent)
        \* w0: the object after self.initialize()
        Initialized(w0) ==
            IF w0.registry.kind # "map" THEN Raise(w0, "AttributeError")
            ELSE Scanned(w0, w0.registry.recs,
                         {i \in 1..Len(w0.registry.recs) :
                             w0.registry.recs[i].fingerprint = fingerprint.composite})
    IN Initialized(initialize(w, c))

get_agent(w, c, agent_id) ==
    LET Initialized(w0) ==
            IF w0.registry.kind # "map" THEN Raise(w0, "AttributeError")
            ELSE IF IndexOf(w0.registry.recs, agent_id) # 0
                 THEN Return(w0, Some(agent_id)) ELSE Return(w0, None)
    IN Initialized(initialize(w, c))

get_all_agents(w, c) ==
    LET Initialized(w0) ==
            IF w0.registry.kind # "map" THEN Raise(w0, "AttributeError")
            ELSE Return(w0, [i \in 1..Len(w0.registry.recs) |-> w0.registry.recs[i].id])
    IN Initialized(initialize(w, c))

----------------------------------------------------------------------------
(* Inputs of the verifier *)

\* a files list: content identity (fid), the patterns the fingerprinter
\* extracts from it (pat), what the enrichment heuristics see, and whether
\* every content is a string (contentOk)
File(fid, pat, nlines, tests, docs, license, ok) ==
    [fid |-> fid, pat |-> pat, nlines |-> nlines, hasTestFile |-> tests,
     hasDocFile |-> docs, hasLicenseFile |-> license, contentOk |-> ok]

NoFiles == File(0, 0, 0, FALSE, FALSE, FALSE, TRUE)

FileSamples ==
    { File(1, 1, 5, FALSE, FALSE, FALSE, TRUE),
      File(2, 1, 2500, TRUE, TRUE, TRUE, TRUE),
      File(3, 2, 700, FALSE, TRUE, FALSE, TRUE),
      File(4, 3, 5, FALSE, FALSE, FALSE, FALSE) }

\* security facts of the scan and the repository's star count
FactSamples ==
    { [securityScore |-> Num(850), issuesFound |-> Num(0), hasSecurityUpdates |-> TRUE,
       stargazers_count |-> Num(0)],
      [securityScore |-> Str, issuesFound |-> Num(3), hasSecurityUpdates |-> FALSE,
       stargazers_count |-> Num(50)] }

\* <<scan_results, github_context>>: scan_results is None, or a dict of files
\* and security facts
RequestSamples ==
    { <<None, [stargazers_count |-> Missing]>> } \cup
    { << Some([files |-> f, securityScore |-> x.securityScore,
               issuesFound |-> x.issuesFound,
               hasSecurityUpdates |-> x.hasSecurityUpdates]),
         [stargazers_count |-> x.stargazers_count] >> :
        f \in FileSamples, x \in FactSamples }

FilesOf(scan_results) == IF scan_results = None THEN NoFiles ELSE scan_results[1].files

----------------------------------------------------------------------------
(* AgentFingerprinter *)

\* create_composite_hash: the digest of the two pattern hashes, as
\* <<first 12 hex characters, remaining characters>>; patterns 1 and 2 are
\* two pattern sets whose digests agree on the first 12 characters
create_composite_hash(pat) ==
    IF pat = 0 THEN <<"e3b0c44298fc", "0">>
    ELSE IF pat = 1 THEN <<"5f990c3a9c96", "1">>
    ELSE IF pat = 2 THEN <<"5f990c3a9c96", "2">>
    ELSE <<"77aa3c0199e1", "3">>

create_fallback_fingerprint == [composite |-> <<"random", "">>, error |-> TRUE]

\* AgentFingerprinter(scan_results).generate_fingerprint(): extraction raises
\* on a content that is not a string and the fallback is returned
generate_fingerprint(scan_results) ==
    LET files == FilesOf(scan_results)
    IN IF files.contentOk
       THEN [composite |-> create_composite_hash(files.pat), error |-> FALSE]
       ELSE create_fallback_fingerprint

----------------------------------------------------------------------------
(* AgentBadgeGenerator *)

\* the thresholds compared with > instead of >=
get_trust_level_Exclusive(score) ==
    IF score > 900 THEN "verified"
    ELSE IF score > 750 THEN "trusted"
    ELSE IF score > 600 THEN "validated"
    ELSE IF score > 400 THEN "basic"
    ELSE "unverified"

get_trust_level(score) ==
    IF score >= 900 THEN "verified"
    ELSE IF score >= 750 THEN "trusted"
    ELSE IF score >= 600 THEN "validated"
    ELSE IF score >= 400 THEN "basic"
    ELSE "unverified"

get_trust_color(score) ==
    IF score >= 900 THEN "#4c1"
    ELSE IF score >= 750 THEN "#97CA00"
    ELSE IF score >= 600 THEN "#dfb317"
    ELSE IF score >= 400 THEN "#fe7d37"
    ELSE "#e05d44"

\* sha256(str({agentId, trustScore, date}))[:16]
create_badge_hash(agent, today) == <<agent.id, agent.trustScore, today>>

prepare_badge_data(agent, verification, today) ==
    [agentId |-> agent.id,
     trustScore |-> agent.trustScore,
     trustLevel |-> get_trust_level(agent.trustScore),
     color |-> get_trust_color(agent.trustScore),
     repositories |-> Len(agent.repositories),
     verificationCount |-> agent.verificationCount,
     consistent |-> verification.consistent,
     timestamp |-> today,
     hash |-> create_badge_hash(agent, today)]

create_fallback_badge ==
    [raised |-> FALSE, error |-> TRUE, trustLevel |-> "", color |-> "#e05d44",
     hash |-> None, verificationUrl |-> <<"error">>]

\* get_trust_level(trust_score) compares the score with 0.9
PrepareRaises(agent) == agent.trustScore = NotANumber

\* generate_markdown and generate_html read data["verificationUrl"]
generate_badge(agent, verification, today) ==
    IF PrepareRaises(agent) THEN create_fallback_badge
    ELSE LET Rendered(data) ==
                 IF "verificationUrl" \in DOMAIN data
                 THEN [raised |-> FALSE, error |-> FALSE, trustLevel |-> data.trustLevel,
                       color |-> data.color, hash |-> Some(data.hash),
                       verificationUrl |-> <<"verify", data.hash>>]
                 ELSE create_fallback_badge
         IN Rendered(prepare_badge_data(agent, verification, today))

----------------------------------------------------------------------------
(* AgentVerifier *)

detect_tests(scan_results) == FilesOf(scan_results).contentOk /\ FilesOf(scan_results).hasTestFile

detect_documentation(scan_results) == FilesOf(scan_results).hasDocFile

detect_license(scan_results) == FilesOf(scan_results).hasLicenseFile

assess_complexity(scan_results) ==
    LET total_lines == FilesOf(scan_results).nlines
    IN IF ~FilesOf(scan_results).contentOk THEN "medium"
       ELSE IF total_lines < 500 THEN "low"
       ELSE IF total_lines < 2000 THEN "medium"
       ELSE "high"

\* scan_results.get(...) on line 99 is outside every try block
EnrichRaises(scan_results) == scan_results = None

enrich_metadata(scan_results, github_context) ==
    [securityScore |-> GetOr(scan_results[1].securityScore, 500),
     securityIssuesFound |-> GetOr(scan_results[1].issuesFound, 0),
     hasSecurityUpdates |-> scan_results[1].hasSecurityUpdates,
     hasTests |-> detect_tests(scan_results),
     hasDocumentation |-> detect_documentation(scan_results),
     hasLicense |-> detect_license(scan_results),
     complexity |-> assess_complexity(scan_results),
     githubStars |-> GetOr(github_context.stargazers_count, 0),
     verificationCount |-> Missing]

\* json.dumps({"repoUrl", "filesHash"}), or "fallback-<hash(repo_url)>" when
\* scan_results has no .get
create_cache_key(repo_url, scan_results) ==
    IF scan_results = None THEN <<"fallback", repo_url, 0>>
    ELSE <<"key", repo_url, scan_results[1].files.fid>>

create_error_result(error, repo_url, today) ==
    [success |-> FALSE,
     error |-> Some([message |-> error, timestamp |-> today, repoUrl |-> repo_url]),
     agent |-> None, verification |-> None, badge |-> None, fingerprint |-> None]

\* the exception left to propagate to the caller
HandleException_Propagate(w, vcache, error, repo_url, today) ==
    [w |-> w, cache |-> vcache, raised |-> TRUE, served |-> FALSE, result |-> None]

\* the except clause of verify_agent
HandleException(w, vcache, error, repo_url, today) ==
    [w |-> w, cache |-> vcache, raised |-> FALSE, served |-> FALSE,
     result |-> Some(create_error_result(error, repo_url, today))]

\* the lookup never finding an entry
cache_hit_Never(c, vcache, cache_key) == FALSE

\* if self.options["enable_cache"] and cache_key in self.cache
cache_hit(c, vcache, cache_key) == c.enable_cache /\ cache_key \in DOMAIN vcache

\* the error flag of the fallback fingerprint ignored
fingerprint_invalid_Ignored(fingerprint) == FALSE

\* if not fingerprint or fingerprint.get("metadata", {}).get("error")
fingerprint_invalid(fingerprint) == fingerprint.error

\* the agent field of a result is the registry's own record object: the
\* result holds a reference to it (its key)
verify_agent(w, c, vcache, repo_url, scan_results, github_context, today) ==
    LET cache_key == create_cache_key(repo_url, scan_results)
        \* lines 81-89: the result stored in the cache and returned
        \* line 86 formats agent_record['trustScore'] with ":.2f" after the
        \* result has been stored
        Printed(w2, vcache2, result, agent_record) ==
            IF agent_record.trustScore = NotANumber
            THEN HandleException(w2, vcache2, "ValueError", repo_url, today)
            ELSE [w |-> w2, cache |-> vcache2, raised |-> FALSE, served |-> FALSE,
                  result |-> Some(result)]
        Stored(w2, result, agent_record) ==
            Printed(w2,
                    IF c.enable_cache THEN (cache_key :> result) @@ vcache ELSE vcache,
                    result, agent_record)
        \* lines 61-79: the badge and the result
        Built(w2, fingerprint, consistency_result, agent_record) ==
            Stored(w2, [success |-> TRUE,
                        error |-> None,
                        agent |-> Some(agent_record.id),
                        verification |-> Some(consistency_result),
                        badge |-> Some(generate_badge(agent_record, consistency_result,
                                                      today)),
                        fingerprint |-> Some(fingerprint.composite)],
                   agent_record)
        \* line 59: agent_record = self.registry.get_agent(agent_id)
        Registered(reg, fingerprint, consistency_result) ==
            IF reg.exc # None
            THEN HandleException(reg.w, vcache, reg.exc[1], repo_url, today)
            ELSE Built(reg.w, fingerprint, consistency_result,
                       reg.w.registry.recs[IndexOf(reg.w.registry.recs, reg.ret[1])])
        \* lines 50-57: enrich_metadata, then update_agent or register_agent
        Enriched(w1, fingerprint, consistency_result, enriched_metadata) ==
            Registered(IF consistency_result.consistent
                       THEN update_agent(w1, c, consistency_result.agentId[1], repo_url,
                                         fingerprint, enriched_metadata, today)
                       ELSE register_agent(w1, c, repo_url, fingerprint,
                                           enriched_metadata, today),
                       fingerprint, consistency_result)
        \* lines 47-50: the consistency report
        Checked(cons, fingerprint) ==
            IF cons.exc # None
            THEN HandleException(cons.w, vcache, cons.exc[1], repo_url, today)
            ELSE IF EnrichRaises(scan_results)
            THEN HandleException(cons.w, vcache, "AttributeError", repo_url, today)
            ELSE Enriched(cons.w, fingerprint, cons.ret[1],
                          enrich_metadata(scan_results, github_context))
        \* lines 39-47: the fingerprint and its error check
        Fingerprinted(fingerprint) ==
            IF fingerprint_invalid(fingerprint)
            THEN HandleException(w, vcache, "Failed to generate valid fingerprint",
                                 repo_url, today)
            ELSE Checked(verify_agent_consistency(w, c, fingerprint, repo_url),
                         fingerprint)
    IN IF cache_hit(c, vcache, cache_key)
       THEN [w |-> w, cache |-> vcache, raised |-> FALSE, served |-> TRUE,
             result |-> Some(vcache[cache_key])]
       ELSE Fingerprinted(generate_fingerprint(scan_results))

\* the entries kept
clear_cache_Keep(vcache) == vcache

\* self.cache.clear()
clear_cache(vcache) == <<>>

----------------------------------------------------------------------------
(* Inputs of the registry operations *)

FingerprintSamples == { [composite |-> create_composite_hash(p), error |-> FALSE] : p \in 1..2 }

Metadata(sec, flag, complexity, stars, issues, count) ==
    [securityScore |-> sec, securityIssuesFound |-> issues, hasSecurityUpdates |-> flag,
     hasTests |-> flag, hasDocumentation |-> flag, hasLicense |-> flag,
     complexity |-> complexity, githubStars |-> stars, verificationCount |-> count]

MetadataSamples ==
    { Metadata(Missing, FALSE, "high", Missing, Num(3), Num(0 - 100)),
      Metadata(Num(850), TRUE, "low", Num(5000), Num(0), Missing),
      Metadata(Str, TRUE, "low", Str, Str, Obj),
      Metadata(Num(850), FALSE, "medium", Num(0), Num(3), Missing) }

IdSamples(c) == { generate_agent_did(c, r, f) : r \in Repos, f \in FingerprintSamples }

----------------------------------------------------------------------------
(* Configurations: the registry class, GITHUB_ACTIONS, the storage path    *)
(* (the entrypoint passes the snapshot's own file), auto_save, whether the *)
(* file system accepts writes, enable_cache, and the document found at the *)
(* storage path when the first process starts.                             *)

Config(backend, gha, path, auto_save, writable, enable_cache, doc) ==
    [backend |-> backend, gha |-> gha, storage_path |-> path, auto_save |-> auto_save,
     writable |-> writable, enable_cache |-> enable_cache, initial_doc |-> doc]

\* a document holding one record whose verificationCount is a string
BadCountDoc ==
    [kind |-> "map",
     recs |-> << [id |-> <<"agentproof", RepoHash12("A"), Prefix12(create_composite_hash(1))>>,
                  fingerprint |-> create_composite_hash(1),
                  repositories |-> <<"A">>,
                  trustScore |-> 500,
                  lastVerified |-> Num(0),
                  verificationCount |-> Str] >>]

\* a document holding one record whose trustScore is a string
BadScoreDoc ==
    [kind |-> "map",
     recs |-> << [id |-> <<"agentproof", RepoHash12("A"), Prefix12(create_composite_hash(1))>>,
                  fingerprint |-> create_composite_hash(1),
                  repositories |-> <<"A">>,
                  trustScore |-> NotANumber,
                  lastVerified |-> Num(0),
                  verificationCount |-> Num(1)] >>]

VerifierConfigs ==
    { Config("CachedAgentRegistry", x[1], x[2], TRUE, x[3], x[4], x[5]) :
        x \in { <<FALSE, "data", TRUE, TRUE, AbsentDoc>>,
                <<TRUE, "data", TRUE, TRUE, AbsentDoc>>,
                <<TRUE, "cache", TRUE, TRUE, AbsentDoc>>,
                <<FALSE, "data", FALSE, TRUE, AbsentDoc>>,
                <<FALSE, "data", TRUE, FALSE, AbsentDoc>>,
                <<FALSE, "data", TRUE, TRUE, ListDoc>>,
                <<FALSE, "data", TRUE, TRUE, BadCountDoc>>,
                <<FALSE, "data", TRUE, TRUE, BadScoreDoc>>,
                <<FALSE, "data", FALSE, TRUE, BadScoreDoc>> } }

RegistryConfigs ==
    { Config(x[1], x[2], x[3], x[4], x[5], TRUE, x[6]) :
        x \in { <<"AgentRegistry", FALSE, "data", TRUE, TRUE, AbsentDoc>>,
                <<"AgentRegistry", FALSE, "data", FALSE, TRUE, AbsentDoc>>,
                <<"AgentRegistry", FALSE, "data", TRUE, FALSE, AbsentDoc>>,
                <<"AgentRegistry", FALSE, "data", TRUE, TRUE, InvalidDoc>>,
                <<"AgentRegistry", FALSE, "data", TRUE, TRUE, ListDoc>>,
                <<"CachedAgentRegistry", FALSE, "data", TRUE, TRUE, AbsentDoc>>,
                <<"CachedAgentRegistry", TRUE, "data", TRUE, TRUE, AbsentDoc>>,
                <<"CachedAgentRegistry", TRUE, "cache", TRUE, TRUE, AbsentDoc>>,
                <<"CachedAgentRegistry", TRUE, "data", TRUE, TRUE, ListDoc>> } }

----------------------------------------------------------------------------
(* State *)

\* saveFailed: the write of save_registry raised during the call (it starts
\* FALSE on every call)
World ==
    [registry |-> registry, initialized |-> initialized, fs |-> fs, loads |-> loads,
     saveFailed |-> FALSE]

SetWorld(w) ==
    /\ registry' = w.registry
    /\ initialized' = w.initialized
    /\ fs' = w.fs
    /\ loads' = w.loads

NoCall ==
    [op |-> "none", inst |-> 1, raised |-> FALSE, served |-> FALSE, first |-> FALSE,
     repo |-> "",
     id |-> None, fp |-> None, fpError |-> FALSE, files |-> None, result |-> None,
     rec |-> None, cons |-> None, md |-> None, saveFailed |-> FALSE, cleared |-> {},
     recalled |-> FALSE]

\* a second registry object constructed on the same storage path: its own
\* in-memory mapping and initialized flag
NoPeer == [registry |-> EmptyRegistry, initialized |-> FALSE]

\* fx holds the input and the results of the fingerprinter and of the badge
\* generator when they are exercised on their own; the pipeline leaves it
\* alone
NoInput == <<>>

\* a new process: AgentVerifier() / a registry constructor
Construct ==
    /\ registry = EmptyRegistry
    /\ initialized = FALSE
    /\ loads = 0
    /\ cache = <<>>
    /\ returned = <<>>
    /\ last = NoCall

InitCommon(configs) ==
    /\ cfg \in configs
    /\ fs = [p \in Paths |-> IF p = cfg.storage_path THEN cfg.initial_doc ELSE AbsentDoc]
    /\ now = 0
    /\ nops = 0
    /\ peer = NoPeer
    /\ fx = NoInput
    /\ Construct

Init == InitCommon(VerifierConfigs)

InitRegistry == InitCommon(RegistryConfigs)

IsFirst == last.op = "none"

CanStep == nops < MaxOps

Step == CanStep /\ nops' = nops + 1

----------------------------------------------------------------------------
(* Actions *)

\* returned records, for each (repoUrl, files) input, the result of the
\* successful call made with it on this verifier since the cache was last
\* emptied
InputOf(repo_url, scan_results) == <<repo_url, FilesOf(scan_results).fid>>

VerifyAgent(repo_url, scan_results, github_context) ==
    CanStep /\
    \E out \in {verify_agent(World, cfg, cache, repo_url, scan_results, github_context, now)},
       fingerprint \in {generate_fingerprint(scan_results)} :
       /\ Step
       /\ SetWorld(out.w)
       /\ cache' = out.cache
       /\ last' = [NoCall EXCEPT !.op = "verify_agent", !.raised = out.raised,
                                 !.served = out.served, !.first = IsFirst,
                                 !.repo = repo_url,
                                 !.files = Some(FilesOf(scan_results).fid),
                                 !.fp = IF out.served \/ fingerprint.error THEN None
                                        ELSE Some(fingerprint.composite),
                                 !.fpError = ~out.served /\ fingerprint.error,
                                 !.md = IF EnrichRaises(scan_results) THEN None
                                        ELSE Some(enrich_metadata(scan_results,
                                                                  github_context)),
                                 !.saveFailed = out.w.saveFailed,
                                 !.recalled = /\ last.op = "clear_cache"
                                              /\ create_cache_key(repo_url, scan_results)
                                                    \in last.cleared,
                                 !.result = out.result]
       /\ returned' = IF ~out.raised /\ out.result[1].success /\ ~out.served
                      THEN (InputOf(repo_url, scan_results) :> out.result[1]) @@ returned
                      ELSE returned
       /\ UNCHANGED <<cfg, now, peer, fx>>

ClearCache ==
    /\ Step
    /\ cache' = clear_cache(cache)
    /\ returned' = <<>>
    /\ last' = [NoCall EXCEPT !.op = "clear_cache", !.cleared = DOMAIN cache]
    /\ UNCHANGED <<cfg, fs, registry, initialized, loads, now, peer, fx>>

RegistryCall(op, out, repo_url, id, fp, rec, cons, md) ==
    /\ Step
    /\ SetWorld(out.w)
    /\ last' = [NoCall EXCEPT !.op = op, !.raised = (out.exc # None), !.first = IsFirst,
                              !.repo = repo_url, !.id = id, !.fp = fp,
                              !.rec = rec, !.cons = cons, !.md = md,
                              !.saveFailed = out.w.saveFailed]
    /\ UNCHANGED <<cfg, cache, now, returned, peer, fx>>

RegisterAgent(repo_url, fingerprint, metadata) ==
    CanStep /\
    \E out \in {register_agent(World, cfg, repo_url, fingerprint, metadata, now)} :
       RegistryCall("register_agent", out, repo_url, None, Some(fingerprint.composite),
                    out.ret, None, Some(metadata))

UpdateAgent(agent_id, repo_url, fingerprint, metadata) ==
    CanStep /\
    \E out \in {update_agent(World, cfg, agent_id, repo_url, fingerprint, metadata, now)} :
       RegistryCall("update_agent", out, repo_url, Some(agent_id), None, out.ret, None,
                    Some(metadata))

VerifyAgentConsistency(fingerprint, current_repo) ==
    CanStep /\
    \E out \in {verify_agent_consistency(World, cfg, fingerprint, current_repo)} :
       RegistryCall("verify_agent_consistency", out, "", None,
                    Some(fingerprint.composite), None, out.ret, None)

GetAgent(agent_id) ==
    CanStep /\
    \E out \in {get_agent(World, cfg, agent_id)} :
       RegistryCall("get_agent", out, "", Some(agent_id), None,
                    IF out.exc = None THEN out.ret[1] ELSE None, None, None)

GetAllAgents ==
    CanStep /\
    \E out \in {get_all_agents(World, cfg)} :
       RegistryCall("get_all_agents", out, "", None, None, None, None, None)

\* the process ends and the next one starts on the same files
NewProcess ==
    /\ Step
    /\ last.op # "none"
    /\ registry' = EmptyRegistry
    /\ initialized' = FALSE
    /\ loads' = 0
    /\ cache' = <<>>
    /\ returned' = <<>>
    /\ last' = NoCall
    /\ UNCHANGED <<cfg, fs, now, peer, fx>>

Tick ==
    /\ now + 7 <= MaxDay
    /\ now' = now + 7
    /\ UNCHANGED <<cfg, fs, registry, initialized, loads, cache, nops, last, returned, peer, fx>>

Next ==
    \/ \E r \in Repos, q \in RequestSamples : VerifyAgent(r, q[1], q[2])
    \/ ClearCache
    \/ NewProcess
    \/ Tick

Spec == Init /\ [][Next]_vars

NextRegistry ==
    \/ \E r \in Repos, f \in FingerprintSamples, m \in MetadataSamples : RegisterAgent(r, f, m)
    \/ \E i \in IdSamples(cfg), r \in Repos, f \in FingerprintSamples, m \in MetadataSamples :
           UpdateAgent(i, r, f, m)
    \/ \E f \in FingerprintSamples : VerifyAgentConsistency(f, "A")
    \/ \E i \in IdSamples(cfg) : GetAgent(i)
    \/ GetAllAgents
    \/ NewProcess
    \/ Tick

SpecRegistry == InitRegistry /\ [][NextRegistry]_vars

----------------------------------------------------------------------------
(* Two registry objects on one storage path.  Each call runs to its return *)
(* before the next one starts; the calls of the two objects interleave.    *)

\* a document saved by an earlier run: one record, verified once
StoredDoc(backend) ==
    [kind |-> "map",
     recs |-> << [id |-> generate_agent_did([backend |-> backend], "A",
                                            [composite |-> create_composite_hash(1)]),
                  fingerprint |-> create_composite_hash(1),
                  repositories |-> <<"A">>,
                  trustScore |-> 500,
                  lastVerified |-> Num(0),
                  verificationCount |-> Num(1)] >>]

SharedConfigs ==
    { Config(b, FALSE, "data", TRUE, TRUE, TRUE, doc) :
        b \in Backends, doc \in {AbsentDoc} } \cup
    { Config(b, FALSE, "data", TRUE, TRUE, TRUE, StoredDoc(b)) : b \in Backends }

InitShared == InitCommon(SharedConfigs)

\* the second object's view: its own mapping and flag, the shared files
PeerWorld ==
    [registry |-> peer.registry, initialized |-> peer.initialized, fs |-> fs, loads |-> 0,
     saveFailed |-> FALSE]

PeerCall(op, out, repo_url, id) ==
    /\ Step
    /\ peer' = [registry |-> out.w.registry, initialized |-> out.w.initialized]
    /\ fs' = out.w.fs
    /\ last' = [NoCall EXCEPT !.op = op, !.inst = 2, !.raised = (out.exc # None),
                              !.repo = repo_url, !.id = id]
    /\ UNCHANGED <<cfg, registry, initialized, loads, cache, now, returned, fx>>

PeerRegisterAgent(repo_url, fingerprint, metadata) ==
    CanStep /\
    \E out \in {register_agent(PeerWorld, cfg, repo_url, fingerprint, metadata, now)} :
       PeerCall("register_agent", out, repo_url, out.ret)

PeerUpdateAgent(agent_id, repo_url, fingerprint, metadata) ==
    CanStep /\
    \E out \in {update_agent(PeerWorld, cfg, agent_id, repo_url, fingerprint, metadata, now)} :
       PeerCall("update_agent", out, repo_url, Some(agent_id))

PeerGetAgent(agent_id) ==
    CanStep /\
    \E out \in {get_agent(PeerWorld, cfg, agent_id)} :
       PeerCall("get_agent", out, "", Some(agent_id))

SharedMetadata == { m \in MetadataSamples : m.verificationCount = Missing }

NextShared ==
    \/ \E r \in Repos, f \in FingerprintSamples, m \in SharedMetadata : RegisterAgent(r, f, m)
    \/ \E i \in IdSamples(cfg), r \in Repos, f \in FingerprintSamples, m \in SharedMetadata :
           UpdateAgent(i, r, f, m)
    \/ \E i \in IdSamples(cfg) : GetAgent(i)
    \/ \E r \in Repos, f \in FingerprintSamples, m \in SharedMetadata :
           PeerRegisterAgent(r, f, m)
    \/ \E i \in IdSamples(cfg), r \in Repos, f \in FingerprintSamples, m \in SharedMetadata :
           PeerUpdateAgent(i, r, f, m)
    \/ \E i \in IdSamples(cfg) : PeerGetAgent(i)

SpecShared == InitShared /\ [][NextShared]_vars

----------------------------------------------------------------------------
(* AgentFingerprinter on a files list.  A file is the suffix of its path   *)
(* and what the analyses read of its content: the provider names and the   *)
(* authentication markers it contains, its number of call patterns and of  *)
(* "try", the modules it imports, and whether the content is a string.     *)
(* The other counters of analyze_error_handling, analyze_rate_limiting and *)
(* analyze_data_flow are sums over the files like tryBlocks.               *)

SourceFile(suffix, providers, auth, calls, tries, imports, isStr) ==
    [suffix |-> suffix, providers |-> providers, auth |-> auth, calls |-> calls,
     tries |-> tries, imports |-> imports, isStr |-> isStr]

SourceFiles ==
    { SourceFile(".py", {"openai"}, {"api_key"}, 1, 1, {"openai", "os"}, TRUE),
      SourceFile(".js", {"anthropic", "openai"}, {}, 4, 0, {}, TRUE),
      SourceFile(".py", {}, {}, 0, 2, {"os"}, TRUE),
      SourceFile(".py", {}, {}, 0, 0, {}, FALSE) }

FileLists == UNION { [1..n -> SourceFiles] : n \in 0..MaxFiles }

\* the names a sorted() call can meet, in sorted order
ProviderNames == <<"anthropic", "cohere", "huggingface", "openai">>

AuthNames == <<"api_key", "bearer">>

LanguageNames == <<"javascript", "python">>

ModuleNames == <<"openai", "os">>

\* sorted(s): the names of the set in alphabetical order
sorted(s, names) == SelectSeq(names, LAMBDA n : n \in s)

RECURSIVE Sum(_)
Sum(seq) == IF seq = <<>> THEN 0 ELSE Head(seq) + Sum(Tail(seq))

\* file.get("content", "").lower() raises AttributeError on a content that
\* is not a string
ExtractionRaises(files) == \E i \in 1..Len(files) : ~files[i].isStr

\* round(len(providers) * 2 + min(callFrequency / 10, 5) + len(authMethods)),
\* computed in tenths; round() rounds a half to the even integer
calculate_api_complexity(providers, callFrequency, authMethods) ==
    LET Rounded(tenths) ==
            IF tenths % 10 < 5 THEN tenths \div 10
            ELSE IF tenths % 10 > 5 THEN tenths \div 10 + 1
            ELSE IF (tenths \div 10) % 2 = 0 THEN tenths \div 10
            ELSE tenths \div 10 + 1
    IN Rounded(Cardinality(providers) * 20 + Min(callFrequency, 50)
               + Cardinality(authMethods) * 10)

\* the providers listed in the order the loop first met them
analyze_api_patterns_Unsorted(files) ==
    LET All(providers, authMethods, callFrequency) ==
            [providers |-> [i \in 1..Len(files) |-> files[i].providers],
             callFrequency |-> callFrequency,
             authMethods |-> sorted(authMethods, AuthNames),
             complexity |-> calculate_api_complexity(providers, callFrequency, authMethods)]
    IN All(UNION {files[i].providers : i \in 1..Len(files)},
           UNION {files[i].auth : i \in 1..Len(files)},
           Sum([i \in 1..Len(files) |-> files[i].calls]))

analyze_api_patterns(files) ==
    LET All(providers, authMethods, callFrequency) ==
            [providers |-> sorted(providers, ProviderNames),
             callFrequency |-> callFrequency,
             authMethods |-> sorted(authMethods, AuthNames),
             complexity |-> calculate_api_complexity(providers, callFrequency, authMethods)]
    IN All(UNION {files[i].providers : i \in 1..Len(files)},
           UNION {files[i].auth : i \in 1..Len(files)},
           Sum([i \in 1..Len(files) |-> files[i].calls]))

analyze_error_handling(files) ==
    [tryBlocks |-> Sum([i \in 1..Len(files) |-> files[i].tries])]

detect_languages(files) ==
    sorted({IF files[i].suffix = ".py" THEN "python" ELSE "javascript" :
              i \in 1..Len(files)}, LanguageNames)

analyze_architecture(files) ==
    [fileCount |-> Len(files), languages |-> detect_languages(files)]

analyze_dependencies(files) ==
    sorted(UNION {files[i].imports : i \in 1..Len(files)}, ModuleNames)

analyze_configuration == [configType |-> "yaml", hasConfig |-> TRUE]

analyze_file_structure == [structure |-> "modular"]

\* normalize_patterns sorts the values that are sets or lists; of the values
\* the analyses return only "dependencies" is a list, the others are dicts
normalize_patterns(value, names) == sorted({value[i] : i \in 1..Len(value)}, names)

extract_behavioral_patterns(files) ==
    [api_patterns |-> analyze_api_patterns(files),
     error_handling |-> analyze_error_handling(files)]

extract_structural_patterns(files) ==
    [architecture |-> analyze_architecture(files),
     dependencies |-> normalize_patterns(analyze_dependencies(files), ModuleNames),
     configuration |-> analyze_configuration,
     file_structure |-> analyze_file_structure]

\* the digest of json.dumps(data, sort_keys=True): a record has no key
\* order, and distinct texts have distinct digests
create_hash(data) == [sha256 |-> data]

\* the timestamp always digested
composite_hash_Timestamped(behavioral, structural, options, utcnow) ==
    create_hash([behavioral |-> create_hash(behavioral),
                 structural |-> create_hash(structural),
                 timestamp |-> <<"iso", utcnow>>])

\* create_composite_hash(behavioral, structural)
composite_hash(behavioral, structural, options, utcnow) ==
    create_hash([behavioral |-> create_hash(behavioral),
                 structural |-> create_hash(structural),
                 timestamp |-> IF options.include_timestamp THEN <<"iso", utcnow>>
                               ELSE <<"static">>])

\* the 32 random characters of the fallback
Fillers == {"k3x9", "p07q"}

fallback_fingerprint(utcnow, filler) ==
    LET Same(digest) ==
            [behavioral |-> digest, structural |-> digest, composite |-> digest,
             error |-> TRUE]
    IN Same(create_hash([error |-> TRUE, timestamp |-> <<"iso", utcnow>>,
                         basic |-> filler]))

\* AgentFingerprinter({"files": files}, options).generate_fingerprint()
fingerprint_files(files, options, utcnow, filler) ==
    IF ExtractionRaises(files) THEN fallback_fingerprint(utcnow, filler)
    ELSE LET Hashed(behavioral, structural) ==
                 [behavioral |-> create_hash(behavioral),
                  structural |-> create_hash(structural),
                  composite |-> composite_hash(behavioral, structural, options, utcnow),
                  error |-> FALSE]
         IN Hashed(extract_behavioral_patterns(files), extract_structural_patterns(files))

\* the registry and the verifier stay as constructed
InitIdle ==
    /\ cfg = Config("AgentRegistry", FALSE, "data", TRUE, TRUE, TRUE, AbsentDoc)
    /\ fs = [p \in Paths |-> AbsentDoc]
    /\ now = 0
    /\ nops = 0
    /\ peer = NoPeer
    /\ Construct

InitFingerprint ==
    /\ InitIdle
    /\ fx \in { [files |-> f, options |-> [include_timestamp |-> t], out |-> <<>>] :
                   f \in FileLists, t \in BOOLEAN }

\* one call; the clock advances between two calls
GenerateFingerprint ==
    /\ Step
    /\ \E filler \in Fillers :
          fx' = [fx EXCEPT !.out =
                    Append(@, [input |-> fx.files,
                               fp |-> fingerprint_files(fx.files, fx.options, nops,
                                                        filler)])]
    /\ UNCHANGED <<cfg, fs, registry, initialized, loads, cache, now, last, returned, peer>>

\* the caller passes the same files in another order
ReorderFiles ==
    /\ \E i \in 1..(Len(fx.files) - 1) :
          /\ fx.files[i] # fx.files[i + 1]
          /\ fx' = [fx EXCEPT !.files = [@ EXCEPT ![i] = fx.files[i + 1],
                                                  ![i + 1] = fx.files[i]]]
    /\ UNCHANGED <<cfg, fs, registry, initialized, loads, cache, now, nops, last, returned,
                   peer>>

NextFingerprint == GenerateFingerprint \/ ReorderFiles

SpecFingerprint == InitFingerprint /\ [][NextFingerprint]_vars

----------------------------------------------------------------------------
(* AgentBadgeGenerator on an agent record of any trust score.  fx.data is  *)
(* what prepare_badge_data returned last, fx.badge what generate_badge did *)

BadgeAgents ==
    { [id |-> <<"agentproof", RepoHash12("A"), Prefix12(create_composite_hash(1))>>,
       fingerprint |-> create_composite_hash(1),
       repositories |-> <<"A">>,
       trustScore |-> score,
       lastVerified |-> Num(0),
       verificationCount |-> Num(1)] : score \in (100..1000) \cup {NotANumber} }

InitBadge ==
    /\ InitIdle
    /\ fx \in { [agent |-> a, verification |-> NotConsistent, data |-> None,
                  badge |-> None] : a \in BadgeAgents }

PrepareBadgeData ==
    /\ Step
    /\ ~PrepareRaises(fx.agent)
    /\ fx' = [fx EXCEPT !.data = Some(prepare_badge_data(fx.agent, fx.verification, now))]
    /\ UNCHANGED <<cfg, fs, registry, initialized, loads, cache, now, last, returned, peer>>

GenerateBadge ==
    /\ Step
    /\ fx' = [fx EXCEPT !.badge = Some(generate_badge(fx.agent, fx.verification, now))]
    /\ UNCHANGED <<cfg, fs, registry, initialized, loads, cache, now, last, returned, peer>>

NextBadge == PrepareBadgeData \/ GenerateBadge \/ (Tick /\ nops < MaxOps)

SpecBadge == InitBadge /\ [][NextBadge]_vars

----------------------------------------------------------------------------
(* One record registered and then updated again and again.  fx.id is the    *)
(* record's identifier, fx.updates the number of update_agent calls made   *)
(* on it since register_agent created it                                   *)

SaturationConfigs ==
    { Config(b, FALSE, "data", TRUE, TRUE, TRUE, AbsentDoc) : b \in Backends }

InitSaturation ==
    /\ cfg \in SaturationConfigs
    /\ fs = [p \in Paths |-> AbsentDoc]
    /\ now = 0
    /\ nops = 0
    /\ peer = NoPeer
    /\ fx = [id |-> None, updates |-> 0]
    /\ Construct

RegisterRecord(fingerprint, metadata) ==
    /\ fx.id = None
    /\ \E out \in {register_agent(World, cfg, "A", fingerprint, metadata, now)} :
          /\ out.exc = None
          /\ SetWorld(out.w)
          /\ fx' = [id |-> out.ret, updates |-> 0]
          /\ last' = [NoCall EXCEPT !.op = "register_agent", !.first = IsFirst,
                                    !.repo = "A", !.fp = Some(fingerprint.composite),
                                    !.rec = out.ret, !.md = Some(metadata),
                                    !.saveFailed = out.w.saveFailed]
    /\ UNCHANGED <<cfg, cache, now, nops, returned, peer>>

UpdateRecord(fingerprint, metadata) ==
    /\ fx.id # None
    /\ fx.updates < MaxUpdates
    /\ \E out \in {update_agent(World, cfg, fx.id[1], "A", fingerprint, metadata, now)} :
          /\ SetWorld(out.w)
          /\ fx' = [fx EXCEPT !.updates = @ + 1]
          /\ last' = [NoCall EXCEPT !.op = "update_agent", !.raised = (out.exc # None),
                                    !.repo = "A", !.id = fx.id, !.rec = out.ret,
                                    !.md = Some(metadata),
                                    !.saveFailed = out.w.saveFailed]
    /\ UNCHANGED <<cfg, cache, now, nops, returned, peer>>

\* the metadata samples and the lowest-scoring metadata that leaves the
\* bookkeeping fields alone (high complexity, nothing else: 0.45)
RegistrationSamples ==
    MetadataSamples \cup {Metadata(Missing, FALSE, "high", Missing, Num(3), Missing)}

NextSaturation ==
    \/ \E f \in FingerprintSamples, m \in RegistrationSamples : RegisterRecord(f, m)
    \/ \E f \in FingerprintSamples, m \in SharedMetadata : UpdateRecord(f, m)
    \/ Tick

SpecSaturation == InitSaturation /\ [][NextSaturation]_vars

----------------------------------------------------------------------------
(* Properties *)

Records == IF registry.kind = "map" THEN {registry.recs[i] : i \in 1..Len(registry.recs)} ELSE {}

RecordsOf(reg) == {reg.recs[i] : i \in 1..Len(reg.recs)}

Holders(reg, composite) == {a \in RecordsOf(reg) : a.fingerprint = composite}

RecordById(reg, id) == CHOOSE a \in RecordsOf(reg) : a.id = id

NoDuplicates(seq) == \A i, j \in 1..Len(seq) : seq[i] = seq[j] => i = j

IsCall(op) == nops' = nops + 1 /\ last'.op = op

\* C1: with caching enabled, a verify_agent call whose (repoUrl, files) equal
\* those of an earlier successful call on the same verifier (the cache not
\* emptied in between) returns the result of that earlier call and leaves
\* the in-memory registry and the persisted documents as they were.
C1_CacheIdempotence ==
    [][(IsCall("verify_agent") /\ cfg.enable_cache
          /\ <<last'.repo, last'.files[1]>> \in DOMAIN returned)
       => /\ last'.result = Some(returned[<<last'.repo, last'.files[1]>>])
          /\ registry' = registry
          /\ fs' = fs
          /\ initialized' = initialized]_vars

C1_Witness ==
    /\ last.op = "verify_agent"
    /\ last.served
    /\ last.result[1].success
    /\ \E a \in Records : a.id = last.result[1].agent[1] /\ a.verificationCount = Num(1)

C3_ScoreBounds == \A a \in Records : a.trustScore >= 100 /\ a.trustScore <= 1000

C3_Witness ==
    /\ last.op = "update_agent"
    /\ ~last.raised
    /\ \E a \in Records : a.trustScore = 100
    /\ \E a \in Records : a.trustScore = 1000

\* C4: when fingerprint generation fails, verify_agent returns success=false
\* and neither the in-memory registry nor the persisted documents change.
C4_FingerprintFailure ==
    [][(IsCall("verify_agent") /\ last'.fpError)
       => /\ ~last'.raised
          /\ ~last'.result[1].success
          /\ registry' = registry
          /\ initialized' = initialized
          /\ fs' = fs]_vars

C4_Witness ==
    /\ last.op = "verify_agent"
    /\ last.fpError
    /\ ~last.result[1].success
    /\ Records # {}

\* C5: verify_agent never raises; a failure at any step yields a result with
\* success=false, an error object (message, timestamp, repoUrl) and agent,
\* verification, badge and fingerprint all null.
C5_NeverRaises ==
    last.op = "verify_agent" =>
        /\ ~last.raised
        /\ last.result # None
        /\ (~last.result[1].success =>
               /\ last.result[1].error # None
               /\ DOMAIN last.result[1].error[1] = {"message", "timestamp", "repoUrl"}
               /\ last.result[1].error[1].repoUrl = last.repo
               /\ last.result[1].agent = None
               /\ last.result[1].verification = None
               /\ last.result[1].badge = None
               /\ last.result[1].fingerprint = None)

C5_Witness ==
    /\ last.op = "verify_agent"
    /\ ~last.result[1].success
    /\ last.result[1].error[1].message = "TypeError"

\* the registry as the process sees it before a call: the in-memory mapping
\* once initialized, the persisted document otherwise
StoreView ==
    IF initialized THEN registry
    ELSE IF fs[cfg.storage_path].kind = "map"
         THEN [kind |-> "map", recs |-> fs[cfg.storage_path].recs]
         ELSE EmptyRegistry

Ids(reg) == {a.id : a \in RecordsOf(reg)}

\* C6: starting from an empty store and using only verify_agent, a successful
\* verification not served from the cache creates a new record exactly when
\* no existing record holds the verified composite fingerprint and otherwise
\* updates the matching record; no two records hold the same fingerprint.
C6_Lifecycle ==
    /\ [][(IsCall("verify_agent") /\ cfg.initial_doc = AbsentDoc
             /\ ~last'.served /\ last'.result[1].success)
          => IF Holders(StoreView, last'.fp[1]) = {}
             THEN /\ Len(registry'.recs) = Len(StoreView.recs) + 1
                  /\ last'.result[1].agent[1] \notin Ids(StoreView)
                  /\ RecordById(registry', last'.result[1].agent[1]).fingerprint = last'.fp[1]
             ELSE /\ Ids(registry') = Ids(StoreView)
                  /\ \E a \in Holders(StoreView, last'.fp[1]) :
                        last'.result[1].agent[1] = a.id]_vars
    /\ [](\A a, b \in Records : a.fingerprint = b.fingerprint => a = b)

\* C7: after every register_agent or update_agent call that returns with
\* auto-save on and a writable store, the document at the storage path is
\* the serialization of the whole in-memory registry.
C7_SavedAfterMutation ==
    (last.op \in {"register_agent", "update_agent"} /\ ~last.raised
       /\ cfg.auto_save /\ cfg.writable)
    => fs[cfg.storage_path] = json_dump(registry)

\* C8: when initialize() restores a snapshot, the in-memory registry then
\* contains every record of the restored document: a fingerprint the
\* snapshot holds is reported consistent=true by the first verification of
\* the run, its record is updated and not re-created, and the save of that
\* run drops no earlier record.
C8_SnapshotRestore ==
    [][(IsCall("verify_agent") /\ ~initialized /\ initialized'
          /\ cfg.gha /\ cfg.writable /\ fs[CachePath].kind = "map")
       => /\ Ids(fs[CachePath]) \subseteq Ids(registry')
          /\ Ids(fs[CachePath]) \subseteq Ids(fs'[cfg.storage_path])
          /\ (last'.result[1].success /\ Holders(fs[CachePath], last'.fp[1]) # {}
                => /\ last'.result[1].verification[1].consistent
                   /\ Ids(registry') = Ids(fs[CachePath]))]_vars

FiveOperations ==
    {"register_agent", "update_agent", "verify_agent_consistency", "get_agent",
     "get_all_agents"}

\* C9: whichever of the five registry operations is invoked first on a fresh
\* registry object, the persisted document is loaded before the operation
\* reads or writes a record, so update_agent for an id present in the
\* document succeeds; the load is performed at most once per object.
C9_LazyLoad ==
    /\ [][(nops' = nops + 1 /\ IsFirst /\ last'.op \in FiveOperations
             /\ fs[cfg.storage_path].kind = "map")
          => /\ initialized'
             /\ (last'.op = "update_agent"
                   /\ \E a \in RecordsOf(fs[cfg.storage_path]) :
                         a.id = last'.id[1] /\ a.verificationCount.tag = "int")
                => ~last'.raised]_vars
    /\ [](loads <= 1)

\* C10: whatever the persisted document is (absent, not valid JSON, or valid
\* JSON that is not a mapping of records), initialize() completes and leaves
\* an empty mapping on which the operations work as on a fresh store.
C10_CorruptStore ==
    [][(nops' = nops + 1 /\ ~initialized /\ initialized'
          /\ fs[cfg.storage_path].kind \in {"absent", "invalid", "list"}
          /\ ~(cfg.gha /\ Exists(fs[CachePath])))
       => /\ ~last'.raised
          /\ registry'.kind = "map"
          /\ Ids(registry') \subseteq
                {generate_agent_did(cfg, last'.repo, [composite |-> c])
                   : c \in {create_composite_hash(p) : p \in 1..2}}]_vars

C12_NoPartialWrites ==
    (cfg.initial_doc # InvalidDoc /\ cfg.storage_path # CachePath)
    => fs[cfg.storage_path] # InvalidDoc

\* C13: a returning update_agent sets trustScore to the clamp of the previous
\* score plus min(0.2, count*0.02) and min(0.15, (repositories-1)*0.05), with
\* the count and the repositories as they are after this update, plus 0.05
\* when fewer than 7 days have passed since the verification before this
\* one, plus 0.05 when the supplied issuesFound is 0 and 0.03 when
\* hasSecurityUpdates is set.
C13_UpdateFormula ==
    [][(IsCall("update_agent") /\ ~last'.raised)
       => \E a \in {RecordById(registry, last'.id[1])},
             b \in {RecordById(registry', last'.id[1])},
             m \in {last'.md[1]} :
             b.trustScore =
                Clamp(a.trustScore
                      + Min(200, (a.verificationCount.val + 1) * 20)
                      + Min(150, (Len(add_repository(a.repositories, last'.repo)) - 1) * 50)
                      + (IF get_days_since(a.lastVerified, now) < 7 THEN 50 ELSE 0)
                      + (IF m.securityIssuesFound = Num(0) THEN 50 ELSE 0)
                      + (IF m.hasSecurityUpdates THEN 30 ELSE 0))]_vars

\* the call registered a record whose identifier was neither in memory nor
\* in the persisted document
IsNewAgent ==
    /\ IsCall("register_agent") /\ ~last'.raised
    /\ last'.rec[1] \notin Ids(registry)
    /\ last'.rec[1] \notin Ids(fs[cfg.storage_path])

\* C14: register_agent of a new agent sets trustScore to the clamp to
\* [0.1, 1.0] of 0.5, +0.2 for securityScore > 0.8, +0.1 for tests, +0.1 for
\* documentation, +0.05 for a license, +0.05 / -0.05 for low / high
\* complexity, +min(0.1, stars/1000) for stars > 10; when a comparison
\* raises (a non-numeric securityScore or stars) the score is exactly 0.5.
C14_InitialFormula ==
    [][IsNewAgent
       => \E m \in {last'.md[1]}, b \in {RecordById(registry', last'.rec[1])} :
             IF m.securityScore.tag = "str" \/ m.githubStars.tag = "str"
             THEN b.trustScore = 500
             ELSE \E sec \in {IF m.securityScore.tag = "int" THEN m.securityScore.val ELSE 0},
                     stars \in {IF m.githubStars.tag = "int" THEN m.githubStars.val ELSE 0} :
                     b.trustScore =
                        Max(100, Min(1000,
                            500 + (IF sec > 800 THEN 200 ELSE 0)
                                + (IF m.hasTests THEN 100 ELSE 0)
                                + (IF m.hasDocumentation THEN 100 ELSE 0)
                                + (IF m.hasLicense THEN 50 ELSE 0)
                                + (IF m.complexity = "low" THEN 50 ELSE 0)
                                - (IF m.complexity = "high" THEN 50 ELSE 0)
                                + (IF stars > 10 THEN Min(100, stars) ELSE 0)))]_vars

\* a new agent registered with securityScore 0.85 and nothing else: 0.7
C14_Witness ==
    /\ last.op = "register_agent" /\ ~last.raised
    /\ last.md[1].securityScore = Num(850) /\ ~last.md[1].hasTests
    /\ RecordById(registry, last.rec[1]).verificationCount = Num(1)
    /\ RecordById(registry, last.rec[1]).trustScore = 700

\* C15: on an empty store, the first verify_agent of one 5-line file with
\* securityScore 0.85, no test, documentation or license file and 0 stars
\* registers an agent with trust score 0.7 and returns a badge of trust
\* level "validated" and color #dfb317.
C15_ExampleScenario ==
    [][(IsCall("verify_agent") /\ last'.first /\ cfg.initial_doc = AbsentDoc
          /\ last'.files = Some(1)
          /\ last'.md # None
          /\ last'.md[1].securityScore = Num(850)
          /\ last'.md[1].githubStars = Num(0))
       => /\ ~last'.raised
          /\ last'.result[1].success
          /\ RecordById(registry', last'.result[1].agent[1]).trustScore = 700
          /\ last'.result[1].badge[1].trustLevel = "validated"
          /\ last'.result[1].badge[1].color = "#dfb317"]_vars

\* C16: no returning update_agent call lowers the trustScore of the record
\* it updates, whatever metadata it is given (every record of this
\* specification was created by register_agent).
C16_MonotoneScore ==
    [][(IsCall("update_agent") /\ ~last'.raised)
       => RecordById(registry', last'.id[1]).trustScore
             >= RecordById(registry, last'.id[1]).trustScore]_vars

\* C17 as stated: with include_timestamp false, all calls on the same files,
\* in whatever order they are listed, return the same behavioral, structural
\* and composite hashes, and the composite is the hash of {behavioral hash,
\* structural hash, "static"}.
C17_Determinism ==
    ~fx.options.include_timestamp
    => \A i, j \in 1..Len(fx.out) :
          /\ fx.out[i].fp.behavioral = fx.out[j].fp.behavioral
          /\ fx.out[i].fp.structural = fx.out[j].fp.structural
          /\ fx.out[i].fp.composite = fx.out[j].fp.composite
          /\ fx.out[i].fp.composite =
                create_hash([behavioral |-> fx.out[i].fp.behavioral,
                             structural |-> fx.out[i].fp.structural,
                             timestamp |-> <<"static">>])

\* C17 amended: the same, for the calls whose extraction did not raise (the
\* fingerprints that carry no error).
C17_DeterminismOfSuccess ==
    ~fx.options.include_timestamp
    => \A i, j \in 1..Len(fx.out) :
          (~fx.out[i].fp.error /\ ~fx.out[j].fp.error)
          => /\ fx.out[i].fp.behavioral = fx.out[j].fp.behavioral
             /\ fx.out[i].fp.structural = fx.out[j].fp.structural
             /\ fx.out[i].fp.composite = fx.out[j].fp.composite
             /\ fx.out[i].fp.composite =
                   create_hash([behavioral |-> fx.out[i].fp.behavioral,
                                structural |-> fx.out[i].fp.structural,
                                timestamp |-> <<"static">>])

\* two calls on two different orders of two different files, both without
\* error, gave the same composite
C17_Witness ==
    /\ ~fx.options.include_timestamp
    /\ \E i, j \in 1..Len(fx.out) :
          /\ Len(fx.out[i].input) = 2
          /\ fx.out[i].input # fx.out[j].input
          /\ fx.out[i].input[1].providers # fx.out[i].input[2].providers
          /\ ~fx.out[i].fp.error /\ ~fx.out[j].fp.error
          /\ fx.out[i].fp.composite = fx.out[j].fp.composite

C19_StableLinks ==
    [][(/\ IsCall("verify_agent") /\ ~last'.raised /\ ~last'.served
        /\ last'.result[1].success
        /\ last'.result[1].agent[1] \in Ids(registry)
        /\ \E k \in DOMAIN returned : returned[k].agent = last'.result[1].agent
        /\ RecordById(registry, last'.result[1].agent[1]).lastVerified = Num(now))
       => create_badge_hash(RecordById(registry', last'.result[1].agent[1]), now)
             = create_badge_hash(RecordById(registry, last'.result[1].agent[1]), now)]_vars

\* C20: a verify_agent call that registered or updated a record whose
\* trustScore is not a number (badge preparation fails on it) does not
\* raise and returns success = true with that agent and the fixed error
\* badge, whose verificationUrl ends in /error.
C20_BadgeIsolation ==
    [][(/\ IsCall("verify_agent") /\ ~last'.served /\ last'.fp # None /\ last'.md # None
        /\ \E a \in RecordsOf(registry') :
              /\ a.fingerprint = last'.fp[1]
              /\ PrepareRaises(a)
              /\ a \notin RecordsOf(registry)
              /\ a \notin RecordsOf(fs[cfg.storage_path]))
       => /\ ~last'.raised
          /\ last'.result[1].success
          /\ last'.result[1].agent # None
          /\ last'.result[1].badge = Some(create_fallback_badge)]_vars

\* C21: a register_agent or update_agent call during which the write of the
\* document failed does not raise, returns the record and leaves it in the
\* in-memory registry; a verify_agent call during which the write failed
\* returns success = true with a record the in-memory registry holds.
C21_SaveFailure ==
    [][/\ ((IsCall("register_agent") \/ IsCall("update_agent")) /\ last'.saveFailed)
          => /\ ~last'.raised
             /\ last'.rec # None
             /\ last'.rec[1] \in Ids(registry')
       /\ (IsCall("verify_agent") /\ last'.saveFailed)
          => /\ ~last'.raised
             /\ last'.result[1].success
             /\ last'.result[1].agent[1] \in Ids(registry')]_vars

\* C22: the identifier under which a returning register_agent call holds its
\* record is the one every registry backend derives for the call's
\* (repoUrl, fingerprint): "<namespace>:" + hash12(repoUrl) + "-" +
\* composite[:12], with the same namespace in AgentRegistry and in
\* CachedAgentRegistry.
C22_CanonicalIdentifier ==
    [][(IsCall("register_agent") /\ ~last'.raised)
       => \A b \in Backends :
             last'.rec[1] = generate_agent_did([cfg EXCEPT !.backend = b], last'.repo,
                                               [composite |-> last'.fp[1]])]_vars

\* C23: within one verifier, every cache entry stays as it is on every step
\* other than clear_cache; clear_cache leaves the cache empty; and the
\* verify_agent call that follows clear_cache with a (repoUrl, files) whose
\* entry was cleared is not served from the cache: it is processed in full
\* (the verificationCount of its agent's record rises by one) and a
\* successful result for that agent is in the cache again under its key.
C23_NoEviction ==
    [][/\ (nops' = nops + 1 /\ last'.op \notin {"clear_cache", "none"})
          => \A k \in DOMAIN cache : k \in DOMAIN cache' /\ cache'[k] = cache[k]
       /\ IsCall("clear_cache") => cache' = <<>>
       /\ (IsCall("verify_agent") /\ last'.recalled)
          => /\ ~last'.served /\ ~last'.raised
             /\ <<"key", last'.repo, last'.files[1]>> \in DOMAIN cache'
             /\ \E result \in {cache'[<<"key", last'.repo, last'.files[1]>>]} :
                   /\ result.success
                   /\ result.agent[1] \in Ids(registry)
                   /\ RecordById(registry', result.agent[1]).verificationCount
                         = Num(RecordById(registry, result.agent[1]).verificationCount.val + 1)]_vars

\* a call repeated after clear_cache: processed again, its record verified
\* twice, its result cached again
C23_Witness ==
    /\ last.op = "verify_agent" /\ last.recalled /\ ~last.served
    /\ last.result[1].success
    /\ RecordById(registry, last.result[1].agent[1]).verificationCount = Num(2)
    /\ <<"key", last.repo, last.files[1]>> \in DOMAIN cache

\* C24: a verify_agent call that returns success = false leaves the in-memory
\* registry (as loaded from the document, when this call is the one that
\* loads it), the persisted document and the result cache as they were
\* before the call.
C24_UnchangedOnError ==
    [][(IsCall("verify_agent") /\ ~last'.raised /\ ~last'.result[1].success)
       => /\ registry' \in {registry, initialize(World, cfg).registry}
          /\ fs' = fs
          /\ cache' = cache]_vars

\* C25: after every successful verify_agent call not served from the cache,
\* for repository R and computed composite F, some record of the registry
\* has fingerprint F and lists R, and verify_agent_consistency for F on the
\* registry as the call left it reports consistent = true.
C25_RegisteredFingerprint ==
    [][(IsCall("verify_agent") /\ ~last'.raised /\ ~last'.served /\ last'.result[1].success)
       => /\ \E a \in RecordsOf(registry') :
                a.fingerprint = last'.fp[1] /\ Contains(a.repositories, last'.repo)
          /\ \E out \in {verify_agent_consistency(
                              [registry |-> registry', initialized |-> initialized',
                               fs |-> fs', loads |-> loads', saveFailed |-> FALSE],
                              cfg, [composite |-> last'.fp[1]], last'.repo)} :
                out.exc = None /\ out.ret[1].consistent]_vars

\* C26: a record created by register_agent has trustScore 1.0 once 5
\* update_agent calls have been made on it, whatever security facts they
\* supplied, and after every later update.
C26_Saturation ==
    (fx.id # None /\ fx.updates >= 5)
    => RecordById(registry, fx.id[1]).trustScore = 1000

\* what a held result shows of its agent: the result's agent is the
\* registry's record object, read through the reference
SeenThrough(result, reg) ==
    <<RecordById(reg, result.agent[1]).trustScore,
      RecordById(reg, result.agent[1]).verificationCount,
      RecordById(reg, result.agent[1]).repositories>>

\* C27: a verify_agent call for another repository or other files does not
\* change the trustScore, verificationCount or repositories seen through a
\* result returned earlier by the same verifier.
C27_Snapshot ==
    [][IsCall("verify_agent")
       => \A k \in DOMAIN returned :
             k # <<last'.repo, last'.files[1]>>
             => SeenThrough(returned[k], registry') = SeenThrough(returned[k], registry)]_vars

\* the URLs in the "repositories" of a consistency report: the list of the
\* record the report refers to, or the empty list of the negative report
ReportRepositories(verification, reg) ==
    IF verification.repositories = None THEN <<>>
    ELSE RecordById(reg, verification.repositories[1]).repositories

\* C28: in every successful result of verify_agent, as it is returned,
\* verification.crossRepoCount equals the number of URLs in
\* verification.repositories.
C28_CoherentReport ==
    [][(IsCall("verify_agent") /\ ~last'.raised /\ last'.result[1].success)
       => last'.result[1].verification[1].crossRepoCount
             = Len(ReportRepositories(last'.result[1].verification[1], registry'))]_vars

\* C29: every entry of the result cache is a successful result, and a
\* verify_agent call that returns a failure result stores nothing in the
\* cache (the key of its input is not in the cache after the call).
C29_OnlySuccessCached ==
    /\ [](\A k \in DOMAIN cache : cache[k].success)
    /\ [][(IsCall("verify_agent") /\ ~last'.raised /\ ~last'.result[1].success)
          => /\ cache' = cache
             /\ <<"key", last'.repo, last'.files[1]>> \notin DOMAIN cache']_vars

\* C30: with two registry objects on one storage path, a returning
\* register_agent or update_agent call of one object on one identifier
\* leaves in the persisted document every record of another identifier
\* that the other object holds and had persisted.
C30_NoInterference ==
    [][((IsCall("register_agent") \/ IsCall("update_agent")) /\ ~last'.raised)
       => \A a \in RecordsOf(fs[cfg.storage_path]) :
             (/\ a.id # (IF last'.id # None THEN last'.id[1] ELSE last'.rec[1])
              /\ a \in RecordsOf(IF last'.inst = 1 THEN peer.registry ELSE registry))
             => a \in RecordsOf(fs'[cfg.storage_path])]_vars

====
